---- MODULE Spec2Model ----
(***************************************************************************)
(* foresttrace dataset pipeline: tile acquisition with retry bookkeeping   *)
(* (download_naip.py, download_failed_naip.py, data_pipeline.py) and the    *)
(* per-tile rasterizer (polygons_to_mask_tiles.py).                        *)
(***************************************************************************)
EXTENDS Integers, Sequences, FiniteSets, TLC

\* ---------------------------------------------------------------- bounds
\* Tiles per zoom level in the bounding box (x = 1..NTiles, y = 1).
NTiles == 2
\* Largest --max-retries explored (max_retries ranges over 0..MaxRetries).
MaxRetries == 2
\* --max-workers of the runs explored.
MaxWorkers == 2
\* Pixels per tile side in the model (the code's 256).
TilePx == 2

\* ------------------------------------------------------------- constants
\* The only zoom polygons_to_mask_tiles.main rasterizes.
MASK_ZOOM == 17
\* Zoom levels given to --zoom (the default and the help text's example).
Zooms == {17, 18}

\* ----------------------------------------------------------------- tiles
\* mercantile.Tile(x, y, z)
Tile(a, b, c) == [x |-> a, y |-> b, z |-> c]
TileIds == {Tile(a, 1, c) : a \in 1..NTiles, c \in Zooms}
TilesAt(zm) == {t \in TileIds : t.z = zm}
\* mercantile.tiles(west, south, east, north, zoom): the tiles of one zoom whose
\* footprints meet the box; here the boxes reaching east from the first tile.
TileSets(zm) == {{t \in TilesAt(zm) : t.x <= k} : k \in 1..NTiles}

\* A file of the directory: whether it exists, and what it holds.
File(x) == [exists |-> TRUE, data |-> x]
NoFile == [exists |-> FALSE, data |-> <<>>]

\* f.write(f"{tile.z},{tile.x},{tile.y}\n")
FormatLine(t) == <<t.z, t.x, t.y>>
\* zoom, x, y = line.strip().split(","); mercantile.Tile(int(x), int(y), int(zoom))
ParseLine(l) == Tile(l[2], l[3], l[1])
\* The text of a failure log: one line per tile, in list order.
LogText(ts) == [i \in 1..Len(ts) |-> FormatLine(ts[i])]
\* The tiles a log text lists.
LogTiles(txt) == {ParseLine(txt[i]) : i \in 1..Len(txt)}

RECURSIVE SetToSeq(_)
SetToSeq(S) ==
    IF S = {} THEN <<>>
    ELSE LET m == CHOOSE t \in S : \A u \in S : t.x <= u.x
         IN <<m>> \o SetToSeq(S \ {m})

\* Failure logs an earlier invocation may have left in the directory: one
\* listing the first tile, one listing the last, one listing every tile.
StaleLogs(zm) ==
    {File(LogText(SetToSeq(S))) :
        S \in {{Tile(1, 1, zm)}, {Tile(NTiles, 1, zm)}, TilesAt(zm)}}

Range(s) == {s[i] : i \in 1..Len(s)}

VARIABLES
    \* inputs of download_naip_imagery
    zoom, tiles, max_retries, max_workers,
    \* the output directory naip_tiles/
    img,          \* {z}_{x}_{y}.png per tile: absent, partial or complete
    failed_file,  \* failed_tiles.txt: NoFile or its text
    backup,       \* failed_tiles_backup_{i}.txt: NoFile or its text
    \* the coordinating thread
    pc, retry_count, failed_tiles, collected, todo, aborted, naip_ok,
    \* the fetches (futures of the pool, or the one synchronous call)
    fut,
    \* history
    run,          \* which invocation against this directory: 1 or 2
    fetchCount,   \* fetches started per tile in the current round
    notSaved,     \* tiles whose fetch in the current round ended without a saved file
    hist,         \* one record per finished round of this invocation
    wroteLog,     \* this invocation wrote failed_tiles.txt
    runs,         \* what the first invocation did, once it has ended
    populated0,   \* every tile's file was complete before the first run
    \* data_pipeline
    success, skip_polygons, skip_masks, polygons_file, masks, tile_files,
    steps, raised,
    \* rasterize_tile applied to one tile
    rtile, rpolys, rmask,
    rraised,      \* the call ended with an exception instead of a written mask
    \* the alignment pass: rasterize_to_mask, then tile_mask_from_naip_tiles
    mask_bbox,    \* the extent asked of rasterize_to_mask, projected
    full_mask,    \* the GeoTIFF rasterize_to_mask wrote
    sliced,       \* {z}_{x}_{y}_mask.tif written by tile_mask_from_naip_tiles
    aresult       \* how the alignment loop left the tile

inputs == <<zoom, tiles, max_retries, max_workers>>
coord == <<retry_count, failed_tiles, collected, todo, aborted>>
ghost == <<run, runs, populated0>>
pipeVars == <<success, skip_polygons, skip_masks, polygons_file, masks,
              tile_files, steps, raised>>
alignVars == <<mask_bbox, full_mask, sliced, aresult>>
rastVars == <<rtile, rpolys, rmask, rraised, alignVars>>
acqVars == <<inputs, img, failed_file, backup, pc, coord, naip_ok, fut,
             ghost, fetchCount, notSaved, hist, wroteLog>>

vars == <<acqVars, pipeVars, rastVars>>

Idle == [st |-> "none", ev |-> "-", res |-> "-", created |-> FALSE]
\* A call whose result the coordinating thread has taken.
Taken == [Idle EXCEPT !.st = "taken"]
NoFetches == [t \in TileIds |-> Idle]
ZeroCount == [t \in TileIds |-> 0]

\* ------------------------------------------------------------ download_tile
\* What download_tile returns for each way a fetch can end: True only after
\* img.save returned; every exception is swallowed by "except Exception: pass".
DownloadTileRaisesOnTimeout(ev) ==
    IF ev = "saved" THEN "true" ELSE IF ev = "timeout" THEN "raise" ELSE "false"

\* A variant that falls through to the final "return False, tile" even after
\* img.save returned.
DownloadTileReportsFalse(ev) == "false"

download_tile(ev) == IF ev = "saved" THEN "true" ELSE "false"

InFlight == {t \in TileIds : fut[t].st \in {"fetching", "writing"}}

Fetching == pc \in {"dn_wait", "dfn_fetch"}

\* The ways requests.get and Image.open can end.
Responses == {"ok200", "non200", "timeout", "baddata"}

\* A pool thread picks up a submitted call (at most max_workers run at once).
DownloadTile_Start(t) ==
    /\ pc = "dn_wait"
    /\ fut[t].st = "queued"
    /\ Cardinality(InFlight) < max_workers
    /\ fut' = [fut EXCEPT ![t].st = "fetching"]
    /\ fetchCount' = [fetchCount EXCEPT ![t] = @ + 1]
    /\ UNCHANGED <<inputs, img, failed_file, backup, pc, coord, naip_ok, ghost,
                   notSaved, hist, wroteLog, pipeVars, rastVars>>

\* requests.get returns or raises; Image.open accepts or rejects the bytes.
\* On status 200 with a decodable image, img.save opens the target for writing.
DownloadTile_Respond(t) ==
    /\ Fetching
    /\ fut[t].st = "fetching"
    /\ \E r \in Responses :
         IF r = "ok200"
         THEN /\ fut' = [fut EXCEPT ![t].st = "writing",
                                    ![t].created = (img[t] = "absent")]
              /\ img' = [img EXCEPT ![t] = "partial"]
              /\ notSaved' = notSaved
         ELSE /\ fut' = [fut EXCEPT ![t].st = "done", ![t].ev = r,
                                    ![t].res = download_tile(r)]
              /\ img' = img
              /\ notSaved' = notSaved \cup {t}
    /\ UNCHANGED <<inputs, failed_file, backup, pc, coord, naip_ok, ghost,
                   fetchCount, hist, wroteLog, pipeVars, rastVars>>

\* img.save finishes, or fails part-way (the library may then remove a file
\* it created itself; a file that existed before stays truncated).
DownloadTile_Save(t) ==
    /\ Fetching
    /\ fut[t].st = "writing"
    /\ \/ /\ img' = [img EXCEPT ![t] = "complete"]
          /\ fut' = [fut EXCEPT ![t].st = "done", ![t].ev = "saved",
                                ![t].res = download_tile("saved")]
          /\ notSaved' = notSaved
       \/ /\ \E left \in (IF fut[t].created THEN {"absent", "partial"} ELSE {"partial"}) :
                img' = [img EXCEPT ![t] = left]
          /\ fut' = [fut EXCEPT ![t].st = "done", ![t].ev = "writefail",
                                ![t].res = download_tile("writefail")]
          /\ notSaved' = notSaved \cup {t}
    /\ UNCHANGED <<inputs, failed_file, backup, pc, coord, naip_ok, ghost,
                   fetchCount, hist, wroteLog, pipeVars, rastVars>>

\* The process is killed while fetches are in flight: nothing runs afterwards.
Interrupt ==
    /\ Fetching
    /\ InFlight # {}
    /\ pc' = "interrupted"
    /\ UNCHANGED <<inputs, img, failed_file, backup, coord, naip_ok, fut, ghost,
                   fetchCount, notSaved, hist, wroteLog, pipeVars, rastVars>>

\* ------------------------------------------------------------ download_naip
\* mkdir, failed_tiles = [], executor.submit(download_tile, tile, out_dir) for
\* every tile of the bounding box.
DownloadNaip_Submit ==
    /\ pc = "start"
    /\ fut' = [t \in TileIds |-> IF t \in tiles THEN [Idle EXCEPT !.st = "queued"] ELSE Idle]
    /\ failed_tiles' = <<>>
    /\ collected' = {}
    /\ aborted' = FALSE
    /\ fetchCount' = ZeroCount
    /\ notSaved' = {}
    /\ pc' = "dn_wait"
    /\ UNCHANGED <<inputs, img, failed_file, backup, retry_count, todo, naip_ok,
                   ghost, hist, wroteLog, pipeVars, rastVars>>

\* for future in as_completed(futures): success, tile = future.result()
\* (future.result() re-raises what the call raised).
DownloadNaip_Collect(t) ==
    /\ pc = "dn_wait"
    /\ ~aborted
    /\ t \in tiles \ collected
    /\ fut[t].st = "done"
    /\ IF fut[t].res = "raise"
       THEN /\ aborted' = TRUE
            /\ UNCHANGED <<collected, failed_tiles, fut>>
       ELSE /\ collected' = collected \cup {t}
            /\ failed_tiles' = IF fut[t].res = "false"
                               THEN Append(failed_tiles, t) ELSE failed_tiles
            /\ aborted' = FALSE
            /\ fut' = [fut EXCEPT ![t] = Taken]
    /\ UNCHANGED <<inputs, img, failed_file, backup, pc, retry_count, todo,
                   naip_ok, ghost, fetchCount, notSaved, hist, wroteLog,
                   pipeVars, rastVars>>

\* What a round leaves behind: the fetches it started, the outcomes it
\* collected, the tiles that failed, and the log text it wrote (if any).
RoundRecord(ab) ==
    [fetched |-> fetchCount, failed |-> Range(failed_tiles),
     notSaved |-> notSaved, collected |-> collected, aborted |-> ab,
     log |-> IF failed_tiles # <<>> /\ ~ab THEN File(LogText(failed_tiles)) ELSE NoFile]

\* A variant that leaves the loop at the first failed tile and shuts the pool
\* down without waiting (shutdown(wait=False)) before it writes the log.
DownloadNaip_FinishNoJoin ==
    /\ pc = "dn_wait"
    /\ failed_tiles # <<>>
    /\ hist' = Append(hist, RoundRecord(FALSE))
    /\ pc' = "loop"
    /\ retry_count' = 0
    /\ failed_file' = File(LogText(failed_tiles))
    /\ wroteLog' = TRUE
    /\ UNCHANGED <<inputs, img, backup, failed_tiles, collected, todo, aborted,
                   naip_ok, fut, ghost, fetchCount, notSaved, pipeVars, rastVars>>

\* The pool is left (every submitted call has run); then the failure log is
\* written with open(fail_log, "w") when failed_tiles is not empty.  An
\* exception from future.result() leaves download_naip and is caught by
\* download_naip_imagery, which returns False.
DownloadNaip_Finish ==
    /\ pc = "dn_wait"
    /\ \A t \in tiles : fut[t].st \in {"done", "taken"}
    /\ aborted \/ collected = tiles
    /\ hist' = Append(hist, RoundRecord(aborted))
    /\ IF aborted
       THEN /\ pc' = "acq_done"
            /\ naip_ok' = FALSE
            /\ UNCHANGED <<failed_file, wroteLog, retry_count>>
       ELSE /\ pc' = "loop"
            /\ retry_count' = 0
            /\ naip_ok' = naip_ok
            /\ IF failed_tiles # <<>>
               THEN /\ failed_file' = File(LogText(failed_tiles))
                    /\ wroteLog' = TRUE
               ELSE UNCHANGED <<failed_file, wroteLog>>
    /\ UNCHANGED <<inputs, img, backup, failed_tiles, collected, todo, aborted,
                   fut, ghost, fetchCount, notSaved, pipeVars, rastVars>>

\* ---------------------------------------------------- download_naip_imagery
\* while failed_file.exists() and retry_count < max_retries: retry_count += 1;
\* failed_file.rename(backup_file); download_failed_naip(backup_file, naip_dir)
\* (rename replaces an existing backup of the same number).
\* A variant of the loop body that reads failed_tiles.txt and removes it
\* without keeping it under the backup name.
Imagery_RetryNoBackup ==
    /\ pc = "loop"
    /\ failed_file.exists /\ retry_count < max_retries
    /\ retry_count' = retry_count + 1
    /\ failed_file' = NoFile
    /\ todo' = failed_file.data
    /\ failed_tiles' = <<>>
    /\ collected' = {}
    /\ fut' = NoFetches
    /\ fetchCount' = ZeroCount
    /\ notSaved' = {}
    /\ pc' = "dfn_read"
    /\ UNCHANGED <<inputs, img, backup, aborted, naip_ok, ghost, hist, wroteLog,
                   pipeVars, rastVars>>

Imagery_Retry ==
    /\ pc = "loop"
    /\ failed_file.exists /\ retry_count < max_retries
    /\ retry_count' = retry_count + 1
    /\ backup' = [backup EXCEPT ![retry_count + 1] = failed_file]
    /\ failed_file' = NoFile
    /\ todo' = failed_file.data
    /\ failed_tiles' = <<>>
    /\ collected' = {}
    /\ fut' = NoFetches
    /\ fetchCount' = ZeroCount
    /\ notSaved' = {}
    /\ pc' = "dfn_read"
    /\ UNCHANGED <<inputs, img, aborted, naip_ok, ghost, hist, wroteLog, pipeVars, rastVars>>

\* The loop is not entered (or not entered again): return True.
Imagery_ReturnTrue ==
    /\ pc = "loop"
    /\ ~(failed_file.exists /\ retry_count < max_retries)
    /\ naip_ok' = TRUE
    /\ pc' = "acq_done"
    /\ UNCHANGED <<inputs, img, failed_file, backup, coord, fut, ghost,
                   fetchCount, notSaved, hist, wroteLog, pipeVars, rastVars>>

\* After download_failed_naip: return True when no failed_tiles.txt exists,
\* return False when one does (both inside the loop body).
Imagery_Check ==
    /\ pc = "check"
    /\ IF ~failed_file.exists
       THEN naip_ok' = TRUE /\ pc' = "acq_done"
       ELSE naip_ok' = FALSE /\ pc' = "acq_done"
    /\ UNCHANGED <<inputs, img, failed_file, backup, coord, fut, ghost,
                   fetchCount, notSaved, hist, wroteLog, pipeVars, rastVars>>

\* ------------------------------------------------------ download_failed_naip
\* The next line of the backup file: parse it and call download_tile.
DownloadFailed_Next ==
    /\ pc = "dfn_read"
    /\ todo # <<>>
    /\ LET t == ParseLine(Head(todo))
       IN /\ fut' = [fut EXCEPT ![t] = [Idle EXCEPT !.st = "fetching"]]
          /\ fetchCount' = [fetchCount EXCEPT ![t] = @ + 1]
    /\ pc' = "dfn_fetch"
    /\ UNCHANGED <<inputs, img, failed_file, backup, coord, naip_ok, ghost,
                   notSaved, hist, wroteLog, pipeVars, rastVars>>

\* download_tile returned: if not success: failed_tiles.append(tile).
DownloadFailed_Collect ==
    /\ pc = "dfn_fetch"
    /\ LET t == ParseLine(Head(todo))
       IN /\ fut[t].st = "done"
          /\ IF fut[t].res = "raise"
             THEN /\ pc' = "acq_done"
                  /\ naip_ok' = FALSE
                  /\ hist' = Append(hist, RoundRecord(TRUE))
                  /\ UNCHANGED <<failed_tiles, collected, todo, fut>>
             ELSE /\ pc' = "dfn_read"
                  /\ collected' = collected \cup {t}
                  /\ failed_tiles' = IF fut[t].res = "false"
                                     THEN Append(failed_tiles, t) ELSE failed_tiles
                  /\ todo' = Tail(todo)
                  /\ fut' = [fut EXCEPT ![t] = Taken]
                  /\ UNCHANGED <<naip_ok, hist>>
    /\ UNCHANGED <<inputs, img, failed_file, backup, retry_count, aborted,
                   ghost, fetchCount, notSaved, wroteLog, pipeVars, rastVars>>

\* End of the file: if failed_tiles: open(f"{out_dir}/failed_tiles.txt", "w").
DownloadFailed_Finish ==
    /\ pc = "dfn_read"
    /\ todo = <<>>
    /\ hist' = Append(hist, RoundRecord(FALSE))
    /\ IF failed_tiles # <<>>
       THEN /\ failed_file' = File(LogText(failed_tiles))
            /\ wroteLog' = TRUE
       ELSE UNCHANGED <<failed_file, wroteLog>>
    /\ pc' = "check"
    /\ UNCHANGED <<inputs, img, backup, coord, naip_ok, fut, ghost, fetchCount, notSaved,
                   pipeVars, rastVars>>

\* -------------------------------------------------------------------- rerun
\* Some round of this invocation ended with a non-empty failure set.
SomeFetchFailed == \E i \in 1..Len(hist) : hist[i].failed # {}
\* Some fetch of this invocation ended without a saved file.
SomeFetchNotSaved == \E i \in 1..Len(hist) : hist[i].notSaved # {}

\* The caller runs acquisition again for the same tile set against the same
\* output directory.
Rerun ==
    /\ pc = "acq_done"
    /\ run = 1
    /\ run' = run + 1
    /\ runs' = Append(runs, [ok |-> naip_ok, wrote |-> wroteLog,
                             failed |-> SomeFetchFailed,
                             notSaved |-> SomeFetchNotSaved])
    /\ pc' = "start"
    /\ retry_count' = 0
    /\ failed_tiles' = <<>>
    /\ collected' = {}
    /\ todo' = <<>>
    /\ aborted' = FALSE
    /\ fut' = NoFetches
    /\ fetchCount' = ZeroCount
    /\ notSaved' = {}
    /\ hist' = <<>>
    /\ wroteLog' = FALSE
    /\ UNCHANGED <<inputs, img, failed_file, backup, naip_ok, populated0,
                   pipeVars, rastVars>>

\* --------------------------------------------------------------- geometry
\* Projected (EPSG:3857) coordinates are counted in half pixels: a tile is TW
\* units wide, its pixel (row r, column c) is the square
\* [west + 2c, west + 2c + 2] x [north - 2r - 2, north - 2r].
TW == 2 * TilePx
\* Tiles per side of the square of the tile pyramid the model looks at.
GridN == 3
Px == 0..(TilePx - 1)

\* shapely geometries of this model: closed axis-parallel boxes, which may be
\* degenerate (a segment when one side has length 0, a point when both have),
\* and the empty geometry.  engine tells which operation of the geometry
\* engine, if any, raises for the geometry (an invalid ring, a bad coordinate).
Box(a, b, c, d) == [x0 |-> a, y0 |-> b, x1 |-> c, y1 |-> d, engine |-> "ok"]
EmptyGeom == Box(1, 1, 0, 0)
\* geom.is_empty
is_empty(g) == g.x0 > g.x1 \/ g.y0 > g.y1

Max(a, b) == IF a >= b THEN a ELSE b
Min(a, b) == IF a <= b THEN a ELSE b

\* get_tile_bounds_web_mercator(tile): (west, south, east, north); tile rows
\* count southwards from the top of the square.
TileBounds(t) ==
    [west |-> t.x * TW, south |-> (GridN - t.y - 1) * TW,
     east |-> (t.x + 1) * TW, north |-> (GridN - t.y) * TW]

\* box(west, south, east, north)
TileGeom(t) ==
    LET b == TileBounds(t) IN Box(b.west, b.south, b.east, b.north)

\* shapely intersects: the two closed sets share at least one point.
Intersects(g, h) ==
    /\ ~is_empty(g) /\ ~is_empty(h)
    /\ g.x0 <= h.x1 /\ h.x0 <= g.x1
    /\ g.y0 <= h.y1 /\ h.y0 <= g.y1

\* shapely intersection: the common part, of whatever dimension.
Intersection(g, h) ==
    IF Intersects(g, h)
    THEN Box(Max(g.x0, h.x0), Max(g.y0, h.y0), Min(g.x1, h.x1), Min(g.y1, h.y1))
    ELSE EmptyGeom

HasArea(g) == g.x0 < g.x1 /\ g.y0 < g.y1

\* rasterio.features.rasterize(..., transform=from_bounds(west, south, east,
\* north, 256, 256), all_touched=True): does geometry g burn pixel (r, c) of
\* tile t?  A polygon burns every pixel it overlaps.  A segment or a point is
\* drawn through the pixels floor(x), floor(y) of its coordinates, and only
\* those inside the raster: one lying on the raster's west or north edge
\* falls into column 0 or row 0, one on the east or south edge into column or
\* row 256, which is outside.
BurnsAllTouched(g, t, r, c) ==
    LET b == TileBounds(t)
        px0 == g.x0 - b.west
        px1 == g.x1 - b.west
        py0 == b.north - g.y1
        py1 == b.north - g.y0
    IN  IF HasArea(g)
        THEN /\ px0 < 2 * c + 2 /\ 2 * c < px1
             /\ py0 < 2 * r + 2 /\ 2 * r < py1
        ELSE /\ px0 >= 0 /\ py0 >= 0
             /\ (px0 \div 2) <= c /\ c <= (px1 \div 2)
             /\ (py0 \div 2) <= r /\ r <= (py1 \div 2)

ZeroMask == [rc \in Px \X Px |-> 0]

\* rasterio.transform.from_bounds(west, south, east, north, width, height):
\* pixel width a, pixel height -e, north-west corner (c, f).
from_bounds(west, south, east, north, width, height) ==
    [a |-> (east - west) \div width, e |-> 0 - ((north - south) \div height),
     c |-> west, f |-> north]

\* What rasterio.open(out_path, "w", **profile).write(mask, 1) leaves for tile t.
MaskFile(t, mask) ==
    LET b == TileBounds(t)
    IN [exists |-> TRUE, data |-> mask,
        transform |-> from_bounds(b.west, b.south, b.east, b.north, TilePx, TilePx)]
NoMaskFile == [exists |-> FALSE, data |-> ZeroMask,
               transform |-> from_bounds(0, 0, 0, 0, TilePx, TilePx)]
NoPolygonsFile == [exists |-> FALSE, data |-> {}]

\* A variant without the try block around geom.intersection: a rejection in
\* the clipping step leaves rasterize_tile as well.
RasterizeTileRaisesInClip(t, polygons_3857) ==
    \E g \in polygons_3857 :
        \/ g.engine = "intersects"
        \/ g.engine = "intersection" /\ Intersects(g, TileGeom(t))

\* polygons_3857.intersects(tile_geom_3857) is evaluated for every polygon of
\* the collection outside any try block: an exception of the engine there
\* leaves rasterize_tile.
rasterize_tile_raises(t, polygons_3857) ==
    \E g \in polygons_3857 : g.engine = "intersects"

\* rasterize_tile: the mask written for tile t from the reprojected polygons.
\* A candidate whose geom.intersection raises is skipped (except Exception:
\* continue).
rasterize_tile(t, polygons_3857) ==
    LET tile_geom_3857 == TileGeom(t)
        clipped == {g \in polygons_3857 : Intersects(g, tile_geom_3857)}
        accepted == {g \in clipped : g.engine # "intersection"}
        clipped_geoms == {h \in {Intersection(g, tile_geom_3857) : g \in accepted} :
                            ~is_empty(h)}
    IN  IF clipped = {}
        THEN ZeroMask
        ELSE IF clipped_geoms # {}
             THEN [rc \in Px \X Px |->
                     IF \E h \in clipped_geoms : BurnsAllTouched(h, t, rc[1], rc[2])
                     THEN 1 ELSE 0]
             ELSE ZeroMask

\* ---------------------------------------------------------- alignment pass
\* tile_mask.py: ZOOM, TILE_SIZE and RESOLUTION (projected units per pixel).
ZOOM == 17
TILE_SIZE == TilePx
RESOLUTION == TW \div TilePx

\* Python's int() of the quotient n / d (d > 0): truncation toward zero.
Trunc(n, d) == IF n >= 0 THEN n \div d ELSE 0 - ((0 - n) \div d)

\* mercantile.bounds gives degrees, not projected units.  Degrees are kept as
\* numerators over UnitsPerDegree; the square of tiles spans one degree from
\* the origin of both coordinate systems.
UnitsPerDegree == GridN * TW
\* bounds = mercantile.bounds(x=x, y=y, z=z); x_min, y_max = bounds.west, bounds.north
\* (numerators of degrees)
lnglat_bounds(t) == [west |-> TileBounds(t).west, north |-> TileBounds(t).north]

\* rasterize(..., all_touched=False): a pixel is burnt when its centre lies
\* inside the polygon (doubled coordinates keep the centre integral).
BurnsCentre(g, tr, r, c) ==
    LET cx2 == 2 * (tr.c + tr.a * c) + tr.a
        cy2 == 2 * (tr.f + tr.e * r) + tr.e
    IN  /\ 2 * g.x0 < cx2 /\ cx2 < 2 * g.x1
        /\ 2 * g.y0 < cy2 /\ cy2 < 2 * g.y1

NoFullMask == [exists |-> FALSE, width |-> 0, height |-> 0,
               transform |-> from_bounds(0, 0, 0, 0, 1, 1), data |-> <<>>]
NoSlice == [exists |-> FALSE, data |-> ZeroMask, col |-> 0, row |-> 0,
            transform |-> [a |-> 0, e |-> 0, c |-> 0, f |-> 0]]

\* rasterize_to_mask(polygon_path, output_path, bbox, resolution): the polygons
\* in EPSG:3857 burnt, unclipped, into one raster over the projected bbox.
rasterize_to_mask(polygons, bbox, resolution) ==
    LET width == Trunc(bbox.x1 - bbox.x0, resolution)
        height == Trunc(bbox.y1 - bbox.y0, resolution)
        transform == from_bounds(bbox.x0, bbox.y0, bbox.x1, bbox.y1, width, height)
    IN  [exists |-> TRUE, width |-> width, height |-> height,
         transform |-> transform,
         data |-> [rc \in (0..(height - 1)) \X (0..(width - 1)) |->
                     IF \E g \in polygons : BurnsCentre(g, transform, rc[1], rc[2])
                     THEN 1 ELSE 0]]

RasterizeToMask ==
    /\ ~full_mask.exists
    /\ full_mask' = rasterize_to_mask(rpolys, mask_bbox, RESOLUTION)
    /\ UNCHANGED <<acqVars, pipeVars, rtile, rpolys, rmask, rraised, mask_bbox,
                   sliced, aresult>>

\* tile_mask_from_naip_tiles, one tile file of the directory: the pixel
\* offsets of the tile's corner, the range test, the window read and the
\* write of the tile's mask.  An exception (the zoom assertion, or
\* mercantile.bounds refusing the keyword arguments x=, y=, z=, which depends on
\* the installed mercantile) is caught and printed.
TileMask_Tile ==
    /\ full_mask.exists
    /\ aresult = "none"
    /\ \E keywords_accepted \in BOOLEAN :
       LET transform == full_mask.transform
           bounds == lnglat_bounds(rtile)
           col == Trunc(bounds.west - transform.c * UnitsPerDegree,
                        RESOLUTION * UnitsPerDegree)
           row == Trunc(transform.f * UnitsPerDegree - bounds.north,
                        RESOLUTION * UnitsPerDegree)
       IN  IF rtile.z # ZOOM \/ ~keywords_accepted
           THEN aresult' = "failed" /\ sliced' = sliced
           ELSE IF col < 0 \/ row < 0 \/ col + TILE_SIZE > full_mask.width
                   \/ row + TILE_SIZE > full_mask.height
                THEN aresult' = "skipped" /\ sliced' = sliced
                ELSE /\ aresult' = "written"
                     /\ sliced' =
                          [exists |-> TRUE,
                           data |-> [rc \in Px \X Px |->
                                       full_mask.data[<<row + rc[1], col + rc[2]>>]],
                           col |-> col, row |-> row,
                           transform |-> [a |-> RESOLUTION, e |-> 0 - RESOLUTION,
                                          c |-> bounds.west, f |-> bounds.north]]
    /\ UNCHANGED <<acqVars, pipeVars, rtile, rpolys, rmask, rraised, mask_bbox,
                   full_mask>>

\* ----------------------------------------------------------- data_pipeline
\* Polygon collections download_osm may return in the pipeline runs: none, or
\* one polygon covering exactly one tile of the bounding box.
GridTiles == {Tile(a, b, MASK_ZOOM) : a \in 0..(GridN - 1), b \in 0..(GridN - 1)}
PipelinePolygons == {{}} \cup {{TileGeom(t)} : t \in TilesAt(MASK_ZOOM)}

\* tile_file.stem of f"{tile.z}_{tile.x}_{tile.y}.png"
Stem(t) == <<t.z, t.x, t.y>>
\* z, x, y = map(int, parts); mercantile.Tile(x=x, y=y, z=z)
ParseStem(p) == Tile(p[2], p[3], p[1])

\* Step 1: if not download_naip_imagery(...): success = False.  The locals of
\* the call are gone when it has returned.
Pipeline_Step1 ==
    /\ pc = "acq_done"
    /\ success' = naip_ok
    /\ pc' = "step2"
    /\ retry_count' = 0 /\ failed_tiles' = <<>> /\ collected' = {}
    /\ todo' = <<>> /\ aborted' = FALSE
    /\ fut' = NoFetches /\ fetchCount' = ZeroCount /\ notSaved' = {}
    /\ hist' = <<>>
    /\ UNCHANGED <<inputs, img, failed_file, backup, naip_ok, ghost,
                   wroteLog, skip_polygons,
                   skip_masks, polygons_file, masks, tile_files, steps, raised,
                   rastVars>>

\* Step 2: if not skip_polygons and success: download_forest_polygons, which
\* returns False when download_osm raises or leaves no file.
Pipeline_Step2 ==
    /\ pc = "step2"
    /\ \E sp \in BOOLEAN, sm \in BOOLEAN :
         /\ skip_polygons' = sp
         /\ skip_masks' = sm
         /\ IF ~sp /\ success
            THEN /\ steps' = steps \cup {"polygons"}
                 /\ \E got \in {File(c) : c \in PipelinePolygons} \cup {NoPolygonsFile} :
                      /\ polygons_file' = got
                      /\ success' = got.exists
            ELSE UNCHANGED <<steps, polygons_file, success>>
    /\ pc' = "step3"
    /\ UNCHANGED <<inputs, img, failed_file, backup, coord, naip_ok, fut, ghost,
                   fetchCount, notSaved, hist, wroteLog, masks, tile_files,
                   raised, rastVars>>

\* Step 3: if not skip_masks and not skip_polygons and success: check that the
\* inputs exist and call create_mask_tiles, whose main lists the tile files
\* (tile_dir.glob("*.png") + tile_dir.glob("*.jpg")).
Pipeline_Step3 ==
    /\ pc = "step3"
    /\ IF ~skip_masks /\ ~skip_polygons /\ success
       THEN IF ~polygons_file.exists
            THEN /\ success' = FALSE
                 /\ pc' = "summary"
                 /\ UNCHANGED <<steps, tile_files>>
            ELSE /\ steps' = steps \cup {"masks"}
                 /\ tile_files' = {Stem(t) : t \in {u \in TileIds : img[u] # "absent"}}
                 /\ pc' = "masks"
                 /\ UNCHANGED success
       ELSE /\ pc' = "summary"
            /\ UNCHANGED <<success, steps, tile_files>>
    /\ UNCHANGED <<inputs, img, failed_file, backup, coord, naip_ok, fut, ghost,
                   fetchCount, notSaved, hist, wroteLog, skip_polygons,
                   skip_masks, polygons_file, masks, raised, rastVars>>

\* polygons_to_mask_tiles.main, one tile file: parse the name, skip a tile that
\* is not at zoom 17, else rasterize_tile into {z}_{x}_{y}_mask.tif; an
\* exception of rasterize_tile is caught and the tile counted as failed.
Main_Tile(f) ==
    /\ pc = "masks"
    /\ f \in tile_files
    /\ LET t == ParseStem(f)
       IN masks' = IF t.z # MASK_ZOOM \/ rasterize_tile_raises(t, polygons_file.data)
                   THEN masks
                   ELSE [masks EXCEPT ![Stem(t)] =
                            MaskFile(t, rasterize_tile(t, polygons_file.data))]
    /\ tile_files' = tile_files \ {f}
    /\ UNCHANGED <<inputs, img, failed_file, backup, pc, coord, naip_ok, fut,
                   ghost, fetchCount, notSaved, hist, wroteLog, success,
                   skip_polygons, skip_masks, polygons_file, steps, raised,
                   rastVars>>

\* create_mask_tiles after main: no *_mask.tif at all is a failure.
Main_Finish ==
    /\ pc = "masks"
    /\ tile_files = {}
    /\ success' = (\E n \in DOMAIN masks : masks[n].exists)
    /\ pc' = "summary"
    /\ UNCHANGED <<inputs, img, failed_file, backup, coord, naip_ok, fut, ghost,
                   fetchCount, notSaved, hist, wroteLog, skip_polygons,
                   skip_masks, polygons_file, masks, tile_files, steps, raised,
                   rastVars>>

\* The summary: if not success: raise RuntimeError("Pipeline execution failed").
Pipeline_Summary ==
    /\ pc = "summary"
    /\ raised' = ~success
    /\ pc' = "done"
    /\ UNCHANGED <<inputs, img, failed_file, backup, coord, naip_ok, fut, ghost,
                   fetchCount, notSaved, hist, wroteLog, success, skip_polygons,
                   skip_masks, polygons_file, masks, tile_files, steps, rastVars>>

\* ------------------------------------------------------------ specification
NoMasks == [n \in {Stem(t) : t \in TileIds} |-> NoMaskFile]

PresentLogs ==
    {f.data : f \in {g \in {failed_file} \cup {backup[i] : i \in DOMAIN backup} : g.exists}}

InitCoord ==
    /\ pc = "start"
    /\ retry_count = 0 /\ failed_tiles = <<>> /\ collected = {} /\ todo = <<>>
    /\ aborted = FALSE /\ naip_ok = FALSE
    /\ fut = NoFetches
    /\ run = 1 /\ runs = <<>> /\ fetchCount = ZeroCount /\ notSaved = {}
    /\ hist = <<>>
    /\ wroteLog = FALSE

InitPipe ==
    /\ success = TRUE /\ skip_polygons = FALSE /\ skip_masks = FALSE
    /\ polygons_file = NoPolygonsFile /\ masks = NoMasks /\ tile_files = {}
    /\ steps = {} /\ raised = FALSE

\* The fetch workers and the process being killed.
Workers ==
    \/ \E t \in TileIds : DownloadTile_Start(t)
    \/ \E t \in TileIds : DownloadTile_Respond(t)
    \/ \E t \in TileIds : DownloadTile_Save(t)
    \/ Interrupt

\* download_naip_imagery, one invocation.
Acquire ==
    \/ DownloadNaip_Submit
    \/ \E t \in TileIds : DownloadNaip_Collect(t)
    \/ DownloadNaip_Finish
    \/ Imagery_Retry
    \/ Imagery_ReturnTrue
    \/ DownloadFailed_Next
    \/ DownloadFailed_Collect
    \/ DownloadFailed_Finish
    \/ Imagery_Check

FreshDirectory ==
    /\ img = [t \in TileIds |-> "absent"]
    /\ failed_file = NoFile
    /\ backup = [i \in 1..MaxRetries |-> NoFile]

\* No alignment pass has run.
InitAlign0 ==
    /\ mask_bbox = Box(0, 0, GridN * TW, GridN * TW)
    /\ full_mask = NoFullMask /\ sliced = NoSlice /\ aresult = "none"

InitRaster0 ==
    /\ rtile = Tile(0, 0, MASK_ZOOM) /\ rpolys = {} /\ rmask = NoMaskFile
    /\ rraised = FALSE
    /\ InitAlign0

\* data_pipeline: create_output_subdir makes a new directory named after the
\* bounding box and the time, and the three steps run once in it.
InitPipeline ==
    /\ zoom \in Zooms
    /\ tiles \in TileSets(zoom)
    /\ max_retries \in 0..MaxRetries
    /\ max_workers = MaxWorkers
    /\ FreshDirectory
    /\ populated0 = FALSE
    /\ InitCoord
    /\ InitPipe
    /\ InitRaster0

NextPipeline ==
    \/ Workers
    \/ Acquire
    \/ Pipeline_Step1
    \/ Pipeline_Step2
    \/ Pipeline_Step3
    \/ \E f \in tile_files : Main_Tile(f)
    \/ Main_Finish
    \/ Pipeline_Summary

SpecPipeline == InitPipeline /\ [][NextPipeline]_vars

\* download_naip_imagery called for a directory that may hold what earlier
\* invocations left (complete tile files, a failed_tiles.txt, a first
\* backup), and called again for the same tiles and directory.
InitAcquisition ==
    /\ zoom = MASK_ZOOM
    /\ tiles \in TileSets(zoom)
    /\ max_retries \in 0..MaxRetries
    /\ max_workers = MaxWorkers
    /\ img \in {[t \in TileIds |-> IF t.z = zoom THEN v ELSE "absent"] :
                  v \in {"absent", "complete"}}
    /\ failed_file \in {NoFile} \cup StaleLogs(zoom)
    /\ backup \in {[i \in 1..MaxRetries |-> IF i = 1 THEN s ELSE NoFile] :
                     s \in {NoFile, File(LogText(SetToSeq(TilesAt(zoom))))}}
    /\ populated0 = (\A t \in tiles : img[t] = "complete")
    /\ InitCoord
    /\ InitPipe
    /\ InitRaster0

NextAcquisition ==
    \/ Workers
    \/ Acquire

SpecAcquisition == InitAcquisition /\ [][NextAcquisition]_vars

\* Acquisition run twice for the same tile set against a directory that
\* already holds every tile's image file.
InitRerun ==
    /\ InitAcquisition
    /\ populated0

NextRerun ==
    \/ Workers
    \/ Acquire
    \/ Rerun

SpecRerun == InitRerun /\ [][NextRerun]_vars

\* rasterize_tile as a function of the tile and the reprojected polygons.
\* Polygon corners lie on tile borders or on pixel centres (odd coordinates).
Coords == {k \in 0..(GridN * TW) : k % TW = 0 \/ k % 2 = 1}
Polygons ==
    {g \in [x0 : Coords, y0 : Coords, x1 : Coords, y1 : Coords, engine : {"ok"}] :
        HasArea(g)}
\* Polygons covering one tile each, and the same with a defect that makes the
\* engine raise in intersects or in intersection.
TilePolygons == {TileGeom(t) : t \in GridTiles}
RejectedPolygons ==
    {[g EXCEPT !.engine = e] : g \in TilePolygons, e \in {"intersects", "intersection"}}
\* The collections given to rasterize_tile: none, one polygon, or a rejected
\* polygon next to a sound one.
Collections ==
    {{}} \cup {{g} : g \in Polygons \cup RejectedPolygons}
         \cup {{f, h} : f \in RejectedPolygons, h \in TilePolygons}

InitRaster ==
    /\ zoom = MASK_ZOOM
    /\ tiles = TilesAt(zoom)
    /\ max_retries = 0
    /\ max_workers = MaxWorkers
    /\ FreshDirectory
    /\ populated0 = FALSE
    /\ InitCoord
    /\ InitPipe
    /\ rtile \in GridTiles
    /\ rpolys \in Collections
    /\ rmask = NoMaskFile
    /\ rraised = FALSE
    /\ InitAlign0

\* rasterize_tile(tile, polygons, out_path) writes the tile's mask.
Rasterize_Tile ==
    /\ ~rmask.exists /\ ~rraised
    /\ IF rasterize_tile_raises(rtile, rpolys)
       THEN rraised' = TRUE /\ rmask' = rmask
       ELSE rraised' = FALSE /\ rmask' = MaskFile(rtile, rasterize_tile(rtile, rpolys))
    /\ UNCHANGED <<acqVars, pipeVars, rtile, rpolys, alignVars>>

NextRaster == Rasterize_Tile

SpecRaster == InitRaster /\ [][NextRaster]_vars

\* The alignment pass next to the direct rasterization of the same tile from
\* the same polygons.  The full mask's extent starts at the origin or a pixel
\* or a tile east of it, and reaches from the top of the square, or from one
\* tile north of the origin, down to the origin or one tile south of it.
MaskExtents ==
    {Box(w, s, GridN * TW, n) :
        w \in {0, RESOLUTION, TW}, s \in {0 - TW, 0}, n \in {TW, GridN * TW}}

InitAlign ==
    /\ zoom = MASK_ZOOM
    /\ tiles = TilesAt(zoom)
    /\ max_retries = 0
    /\ max_workers = MaxWorkers
    /\ FreshDirectory
    /\ populated0 = FALSE
    /\ InitCoord
    /\ InitPipe
    /\ rtile \in GridTiles
    /\ rpolys \in {{}} \cup {{g} : g \in TilePolygons}
    /\ rmask = NoMaskFile
    /\ rraised = FALSE
    /\ mask_bbox \in MaskExtents
    /\ full_mask = NoFullMask /\ sliced = NoSlice /\ aresult = "none"

NextAlign ==
    \/ RasterizeToMask
    \/ TileMask_Tile
    \/ Rasterize_Tile

SpecAlign == InitAlign /\ [][NextAlign]_vars

\* ------------------------------------------------------------- properties
\* C1 (retry exhaustion): when download_naip_imagery has reported failure and
\* the fetch of some tile T of the box failed in every round that was run,
\* max_retries retry rounds have been run (max_retries + 1 rounds in all) and
\* failed_tiles.txt exists and lists T.
C1_RetryExhaustion ==
    (pc = "acq_done" /\ ~naip_ok) =>
        \A T \in tiles :
            (hist # <<>> /\ \A i \in 1..Len(hist) : T \in hist[i].failed) =>
                /\ Len(hist) = max_retries + 1
                /\ failed_file.exists
                /\ T \in LogTiles(failed_file.data)

\* C2 (aggregate exhaustion is surfaced): for every max_retries, when
\* acquisition has ended and failed_tiles.txt is present, download_naip_imagery
\* has returned failure; and a pipeline run that ends with failed_tiles.txt
\* present has run neither the polygon download nor the mask creation and has
\* raised.
C2_ExhaustionSurfaced ==
    /\ (pc = "acq_done" /\ failed_file.exists) => ~naip_ok
    /\ (pc = "done" /\ failed_file.exists) => (raised /\ steps = {})

\* C3 (retry convergence): with max_retries >= 1, when acquisition has ended
\* after an initial round in which exactly tile T failed, and T did not fail in
\* the first retry round, then success is reported, exactly two rounds were
\* run, the retry round fetched T once and nothing else, no failed_tiles.txt
\* remains and failed_tiles_backup_1.txt holds the first round's log listing T.
C3_RetryConvergence ==
    (pc = "acq_done" /\ max_retries >= 1 /\ hist # <<>>) =>
        \A T \in tiles :
            (/\ hist[1].failed = {T}
             /\ Len(hist) >= 2 => T \notin hist[2].failed) =>
                /\ naip_ok
                /\ Len(hist) = 2
                /\ \A t \in TileIds : hist[2].fetched[t] = (IF t = T THEN 1 ELSE 0)
                /\ ~failed_file.exists
                /\ backup[1] = File(<<FormatLine(T)>>)
                /\ backup[1] = hist[1].log

\* C3 witness: a two-tile acquisition ended in success after the first tile
\* failed in the initial round and was fetched again in the one retry round.
C3_Witness ==
    /\ pc = "acq_done" /\ naip_ok /\ max_retries >= 1
    /\ Cardinality(tiles) = 2
    /\ Len(hist) = 2
    /\ Cardinality(hist[1].failed) = 1
    /\ hist[2].failed = {}
    /\ hist[2].collected = hist[1].failed

\* C4 (a retry round re-drives exactly the previous failure set): the log a
\* round writes lists exactly the tiles that failed in it; every round after
\* the first fetches each tile of the previous round's failure set once and no
\* other tile; and its failure set is contained in the previous one.
C4_RetryRedrivesFailureSet ==
    \A i \in 1..Len(hist) :
        /\ hist[i].log.exists = (hist[i].failed # {})
        /\ hist[i].log.exists =>
              /\ LogTiles(hist[i].log.data) = hist[i].failed
              /\ Len(hist[i].log.data) = Cardinality(hist[i].failed)
        /\ i > 1 =>
              /\ \A t \in TileIds :
                    hist[i].fetched[t] = (IF t \in hist[i - 1].failed THEN 1 ELSE 0)
              /\ hist[i].failed \subseteq hist[i - 1].failed

\* C5 (no failure log is clobbered): no step removes the text of a failure
\* log from the directory; every text held by failed_tiles.txt or a numbered
\* backup before the step is held by one of those files after it.
C5_NoLogClobbered == [][PresentLogs \subseteq PresentLogs']_vars

\* C6 (the fetch worker never raises, no failure aborts the batch): every
\* finished download_tile call has returned True or False, False when the
\* fetch ended with a non-200 response, a timeout, undecodable data or a
\* failed write; no round is aborted; every finished round fetched each tile
\* submitted to it once and collected an outcome for each, failed exactly for
\* the fetches that saved no file; and the initial round covers every tile of
\* the box.
C6_WorkerNeverRaises ==
    /\ ~aborted
    /\ \A t \in TileIds :
          fut[t].st = "done" =>
              /\ fut[t].res \in {"true", "false"}
              /\ fut[t].ev \in {"non200", "timeout", "baddata", "writefail"} =>
                    fut[t].res = "false"
    /\ \A i \in 1..Len(hist) :
          /\ ~hist[i].aborted
          /\ hist[i].collected = {t \in TileIds : hist[i].fetched[t] > 0}
          /\ \A t \in hist[i].collected : hist[i].fetched[t] = 1
          /\ hist[i].failed = hist[i].notSaved
          /\ i = 1 => hist[i].collected = tiles
    /\ pc = "acq_done" => hist # <<>>

\* C6 witness: an initial round over two tiles has finished in which the fetch
\* of one tile failed and the other tile's outcome was collected as a success.
C6_Witness ==
    /\ hist # <<>>
    /\ Cardinality(tiles) = 2
    /\ Cardinality(hist[1].notSaved) = 1
    /\ hist[1].failed = hist[1].notSaved
    /\ hist[1].collected = tiles

C8_AtomicTileFiles == \A t \in TileIds : img[t] \in {"absent", "complete"}

\* C9 (one mask per imagery tile): a pipeline run that executed the mask step
\* ends with a mask file for every tile that has an image file in the tile
\* directory, at whatever zoom was acquired, hence with as many masks as
\* imagery tiles.
C9_OneMaskPerTile ==
    (pc = "done" /\ "masks" \in steps) =>
        /\ \A t \in TileIds : img[t] # "absent" => masks[Stem(t)].exists
        /\ Cardinality({n \in DOMAIN masks : masks[n].exists})
              = Cardinality({t \in TileIds : img[t] # "absent"})

\* C10 (rasterization correctness): for a collection holding one polygon that
\* is exactly the extent of tile T, the mask of T is all 1 and the mask of
\* every tile next to T (sharing an edge or a corner with it) is all 0.
C10_RasterizationCorrect ==
    rmask.exists =>
        \A T \in GridTiles :
            rpolys = {TileGeom(T)} =>
                /\ rtile = T => \A rc \in Px \X Px : rmask.data[rc] = 1
                /\ (/\ rtile # T
                    /\ rtile.x - T.x \in {-1, 0, 1}
                    /\ rtile.y - T.y \in {-1, 0, 1}) =>
                        \A rc \in Px \X Px : rmask.data[rc] = 0

\* C11 (a tile with no surviving polygon is all background): when the
\* intersects filter has been evaluated and the collection is empty, or no
\* polygon intersects the tile, or every candidate's intersection with the
\* tile is empty or rejected in the clipping step, rasterize_tile raises
\* nothing and writes a mask of the fixed size that is 0 everywhere, with the
\* transform from_bounds of the tile's bounds.
C11_EmptyTileIsBackground ==
    (rmask.exists \/ rraised) =>
        LET candidates == {g \in rpolys : Intersects(g, TileGeom(rtile))}
            b == TileBounds(rtile)
        IN  (/\ \A g \in rpolys : g.engine # "intersects"
             /\ \/ rpolys = {}
                \/ candidates = {}
                \/ \A g \in candidates :
                      \/ g.engine = "intersection"
                      \/ is_empty(Intersection(g, TileGeom(rtile)))) =>
                /\ ~rraised
                /\ rmask.exists
                /\ DOMAIN rmask.data = Px \X Px
                /\ \A rc \in Px \X Px : rmask.data[rc] = 0
                /\ rmask.transform = [a |-> TW \div TilePx, e |-> 0 - (TW \div TilePx),
                                      c |-> b.west, f |-> b.north]

\* C11 witness: a mask has been written, all 0, for a tile whose only
\* candidate polygon covers it and was rejected in the clipping step.
C11_Witness ==
    /\ rmask.exists /\ ~rraised
    /\ rmask.data = ZeroMask
    /\ rpolys = {[TileGeom(rtile) EXCEPT !.engine = "intersection"]}

\* C12 (alignment round trip): for a tile whose footprint lies inside the full
\* mask's extent, the alignment pass writes the tile's window of the full mask,
\* and that window has the pixel values of the mask rasterize_tile writes for
\* the tile from the same polygons.
C12_AlignmentRoundTrip ==
    (aresult # "none" /\ rmask.exists) =>
        LET b == TileBounds(rtile)
        IN  (/\ mask_bbox.x0 <= b.west /\ b.east <= mask_bbox.x1
             /\ mask_bbox.y0 <= b.south /\ b.north <= mask_bbox.y1) =>
                /\ aresult = "written"
                /\ sliced.exists
                /\ \A rc \in Px \X Px : sliced.data[rc] = rmask.data[rc]

\* C13 (a tile that is not covered is never sliced): for a tile whose footprint
\* lies even partly outside the full mask's extent, the alignment pass takes
\* the skip branch and writes no mask file for the tile.
C13_NotCoveredNeverSliced ==
    aresult # "none" =>
        LET b == TileBounds(rtile)
        IN  ~(/\ mask_bbox.x0 <= b.west /\ b.east <= mask_bbox.x1
              /\ mask_bbox.y0 <= b.south /\ b.north <= mask_bbox.y1) =>
                /\ aresult = "skipped"
                /\ ~sliced.exists

\* C14 (strict barrier between rounds): a step that writes or renames a
\* failure log or advances the reading of one is taken only when no submitted
\* fetch is queued or in flight; whenever the coordinating thread is between
\* rounds or at the log (loop test, reading the backup, checking, returned) no
\* fetch is in flight; and a fetch of a retry round starts only when the
\* previous round has finished and its log, if it wrote one, is the backup
\* being read.
C14_StrictBarrier ==
    [][ LET unresolved == {t \in TileIds : fut[t].st \in {"queued", "fetching", "writing"}}
            started == {t \in TileIds : fut[t].st # "fetching" /\ fut'[t].st = "fetching"}
        IN  /\ (failed_file' # failed_file \/ backup' # backup \/ todo' # todo) =>
                  unresolved = {}
            /\ pc \in {"start", "loop", "dfn_read", "check", "acq_done"} =>
                  unresolved = {}
            /\ (started # {} /\ retry_count >= 1) =>
                  /\ Len(hist) = retry_count
                  /\ unresolved = {}
                  /\ hist[retry_count].log.exists =>
                        backup[retry_count] = hist[retry_count].log
      ]_vars

\* C14 witness: a fetch of the first retry round is in flight, after the
\* initial round over two tiles finished, wrote its log and the log was renamed.
C14_Witness ==
    /\ pc = "dfn_fetch" /\ InFlight # {}
    /\ Cardinality(tiles) = 2
    /\ Len(hist) = 1 /\ hist[1].log.exists
    /\ backup[1] = hist[1].log
    /\ ~failed_file.exists

\* C15 (per-geometry problems never fail a tile): when the collection holds a
\* polygon whose intersection with the tile is empty or which the engine
\* rejects, in the intersects filter or in the clipping step, rasterize_tile
\* raises nothing and writes the tile's mask, equal to the mask of the
\* collection without those polygons.
C15_GeometryProblemsNeverFailTile ==
    (rmask.exists \/ rraised) =>
        LET dropped == {g \in rpolys :
                          \/ g.engine # "ok"
                          \/ is_empty(Intersection(g, TileGeom(rtile)))}
        IN  dropped # {} =>
                /\ ~rraised
                /\ rmask.exists
                /\ rmask.data = rasterize_tile(rtile, rpolys \ dropped)

\* C16 (the failure log reflects only the round just finished): when
\* download_naip has returned, and when download_failed_naip has returned,
\* failed_tiles.txt exists exactly if a tile failed in that call.
C16_LogReflectsLastRound ==
    (pc \in {"loop", "check"} /\ hist # <<>>) =>
        failed_file.exists = (hist[Len(hist)].failed # {})

====
